---- MODULE Spec2Model ----
(***************************************************************************)
(* DC/OS Launch command line (test_util/launch_cli.py).                    *)
(*                                                                         *)
(* One action per phase of the command line (create, wait, describe,      *)
(* pytest, delete).  An action is one whole invocation of main(): the      *)
(* process is single threaded and runs to completion.  The only state     *)
(* that survives an invocation is the file at --info-path; the other      *)
(* variables record what the last invocation did and the history of the   *)
(* info path.                                                              *)
(*                                                                         *)
(* Strings that the code takes apart or puts together (--log-level,       *)
(* --env, environment names and values, the test command) are sequences   *)
(* of one-character strings.  Document keys, provider types and error     *)
(* kinds are only compared and are TLA+ strings.                          *)
(***************************************************************************)
EXTENDS Integers, Sequences, FiniteSets, TLC

VARIABLES
    infoFile,   \* the file at --info-path: [exists, parses, doc]
    last,       \* record of the last invocation of main (phase "none" at start)
    writes,     \* number of times the program has written the info path
    created,    \* TRUE once a create invocation has returned 0
    pristine    \* TRUE iff the info path did not exist at the start

vars == <<infoFile, last, writes, created, pristine>>

-----------------------------------------------------------------------------
(* Bounds of the model *)

\* largest exit status the test runner is taken to return (0..MaxStatus)
MaxStatus == 1
\* largest number of trailing <pytest_extras> arguments
MaxExtras == 1
\* the write counter saturates here (the program itself never goes past 1)
MaxWrites == 3
\* largest number of trailing arguments where the test command is examined
MaxCmdExtras == 2

-----------------------------------------------------------------------------
(* Character strings *)

ToUpper ==
    [a |-> "A", b |-> "B", c |-> "C", d |-> "D", e |-> "E", f |-> "F",
     g |-> "G", h |-> "H", i |-> "I", j |-> "J", k |-> "K", l |-> "L",
     m |-> "M", n |-> "N", o |-> "O", p |-> "P", q |-> "Q", r |-> "R",
     s |-> "S", t |-> "T", u |-> "U", v |-> "V", w |-> "W", x |-> "X",
     y |-> "Y", z |-> "Z"]

\* (variant: the string is compared as it was given)
Upper_AsIs(str) == str

\* str.upper()
Upper(str) ==
    [i \in 1..Len(str) |-> IF str[i] \in DOMAIN ToUpper THEN ToUpper[str[i]] ELSE str[i]]

\* ch in str
Contains(str, ch) == \E i \in 1..Len(str) : str[i] = ch

\* str.split(sep): always at least one piece; empty pieces are kept
RECURSIVE Split(_, _)
Split(str, sep) ==
    IF ~Contains(str, sep) THEN <<str>>
    ELSE LET i == CHOOSE j \in 1..Len(str) :
                      str[j] = sep /\ \A k \in 1..(j - 1) : str[k] # sep
         IN <<SubSeq(str, 1, i - 1)>> \o Split(SubSeq(str, i + 1, Len(str)), sep)

\* sep.join(parts)
RECURSIVE Join(_, _)
Join(sep, parts) ==
    IF parts = <<>> THEN <<>>
    ELSE IF Len(parts) = 1 THEN parts[1]
    ELSE parts[1] \o sep \o Join(sep, Tail(parts))

S_CRITICAL == <<"C", "R", "I", "T", "I", "C", "A", "L">>
S_ERROR    == <<"E", "R", "R", "O", "R">>
S_WARNING  == <<"W", "A", "R", "N", "I", "N", "G">>
S_INFO     == <<"I", "N", "F", "O">>
S_DEBUG    == <<"D", "E", "B", "U", "G">>
S_TRACE    == <<"T", "R", "A", "C", "E">>
S_PYTEST   == <<"p", "y", ".", "t", "e", "s", "t">>

-----------------------------------------------------------------------------
(* Logging *)

CRITICAL == 50
ERROR    == 40
WARNING  == 30
INFO     == 20
DEBUG    == 10
\* the step by which the loud loggers are dampened
DAMPEN   == 10

\* (variant: a level that is not known is taken for DEBUG)
_handle_logging_Default(log_level_str) ==
    LET log_level ==
            IF log_level_str = S_CRITICAL THEN CRITICAL
            ELSE IF log_level_str = S_ERROR THEN ERROR
            ELSE IF log_level_str = S_WARNING THEN WARNING
            ELSE IF log_level_str = S_INFO THEN INFO
            ELSE DEBUG
    IN IF log_level_str \in {S_TRACE, S_CRITICAL}
       THEN [ok |-> TRUE, configured |-> TRUE, root |-> log_level,
             dampened |-> FALSE, noisy |-> 0]
       ELSE [ok |-> TRUE, configured |-> TRUE, root |-> log_level,
             dampened |-> TRUE, noisy |-> log_level + DAMPEN]

\* _handle_logging(log_level_str): ok = FALSE when it raises InvalidOption;
\* root is the level given to logging.basicConfig; dampened tells whether
\* setLevel was called on the botocore and boto3 loggers, and noisy is the
\* level it was called with (0 when it was not called)
_handle_logging(log_level_str) ==
    LET known == log_level_str \in
                    {S_CRITICAL, S_ERROR, S_WARNING, S_INFO, S_DEBUG, S_TRACE}
        log_level ==
            IF log_level_str = S_CRITICAL THEN CRITICAL
            ELSE IF log_level_str = S_ERROR THEN ERROR
            ELSE IF log_level_str = S_WARNING THEN WARNING
            ELSE IF log_level_str = S_INFO THEN INFO
            ELSE DEBUG
    IN IF ~known
       THEN [ok |-> FALSE, configured |-> FALSE, root |-> 0,
             dampened |-> FALSE, noisy |-> 0]
       ELSE IF log_level_str \in {S_TRACE, S_CRITICAL}
       THEN [ok |-> TRUE, configured |-> TRUE, root |-> log_level,
             dampened |-> FALSE, noisy |-> 0]
       ELSE [ok |-> TRUE, configured |-> TRUE, root |-> log_level,
             dampened |-> TRUE, noisy |-> log_level + DAMPEN]

-----------------------------------------------------------------------------
(* Documents, files and the process environment *)

NoVal == "none"

\* a mapping with string keys: has is its key set; the values of the keys
\* the program reads are kept, NoVal standing for an absent key
Doc(has, type, provider, provider_info) ==
    [has |-> has,
     type |-> IF "type" \in has THEN type ELSE NoVal,
     provider |-> IF "provider" \in has THEN provider ELSE NoVal,
     provider_info |-> IF "provider_info" \in has THEN provider_info ELSE NoVal]

EmptyDoc == Doc({}, NoVal, NoVal, NoVal)

MARKER == "this_is_a_temporary_config_format_do_not_put_in_production"

\* a file: absent, present with unparsable content, or present with a document
NoFile       == [exists |-> FALSE, parses |-> FALSE, doc |-> EmptyDoc]
BadFile      == [exists |-> TRUE, parses |-> FALSE, doc |-> EmptyDoc]
FileOf(doc)  == [exists |-> TRUE, parses |-> TRUE, doc |-> doc]

ConfigKeys   == {"type", "provider_info", MARKER}
ArtifactKeys == {"type", "provider"}

\* check_keys(user_dict, key_list): the keys of key_list that user_dict lacks
\* (the call raises MissingKeys when there are any)
check_keys(user_keys, key_list) ==
    {key_list[i] : i \in 1..Len(key_list)} \ user_keys

\* load_json(path)
load_json(file) ==
    IF ~file.exists THEN [class |-> "FileNotFoundError", kind |-> "none", doc |-> EmptyDoc]
    ELSE IF ~file.parses THEN [class |-> "ValueError", kind |-> "none", doc |-> EmptyDoc]
    ELSE [class |-> "none", kind |-> "none", doc |-> file.doc]

\* load_yaml(path)
load_yaml(file) ==
    IF ~file.exists THEN [class |-> "FileNotFoundError", kind |-> "none", doc |-> EmptyDoc]
    ELSE IF ~file.parses THEN [class |-> "YamlParseError", kind |-> "ParseError", doc |-> EmptyDoc]
    ELSE [class |-> "none", kind |-> "none", doc |-> file.doc]

-----------------------------------------------------------------------------
(* The launcher registry and the launchers *)

RegisteredTypes == {"fake"}
GoodParams      == {"pi_ok", "p_ok", "p_alt"}

\* get_launcher(provider_type, provider_params)
get_launcher(provider_type, provider_params) ==
    IF provider_type \notin RegisteredTypes
    THEN [class |-> "LauncherError", kind |-> "UnsupportedProvider"]
    ELSE IF provider_params \notin GoodParams
    THEN [class |-> "LauncherError", kind |-> "ProviderConfigError"]
    ELSE [class |-> "none", kind |-> "none"]

\* the artifact launcher.create(config) returns when it succeeds
ArtifactFor(config) ==
    Doc(ArtifactKeys, config.type,
        IF config.provider_info = "pi_ok" THEN "p_ok" ELSE "p_alt", NoVal)

\* the error kind a failing launcher operation raises (a LauncherError)
OpErrorKind(op) ==
    IF op = "create" THEN "ProvisionError"
    ELSE IF op = "wait" THEN "ClusterUnhealthy"
    ELSE "OperationFailed"

-----------------------------------------------------------------------------
(* One invocation *)

NoError == [class |-> "none", kind |-> "none"]

\* what an invocation has done so far; the first seven fields are its inputs
Begin(args, file, cfg, environ, ext) ==
    [phase      |-> args.phase,
     logLevel   |-> args.logLevel,
     env        |-> args.env,
     extras     |-> args.extras,
     environ    |-> environ,
     config     |-> cfg,
     fileBefore |-> file,
     ext        |-> ext,
     steps      |-> <<>>,      \* the calls made, in order
     configured |-> FALSE,     \* logging.basicConfig was called
     rootLevel  |-> 0,
     dampened   |-> FALSE,     \* setLevel was called on botocore and boto3
     noisyLevel |-> 0,
     glCalls    |-> <<>>,      \* arguments of the get_launcher calls
     opCalls    |-> <<>>,      \* launcher operations invoked, with arguments
     lookups    |-> {},        \* names looked up in os.environ
     cmdBuilt   |-> FALSE,     \* the environment prefix of test_cmd was built
     printed    |-> <<>>,
     fileAfter  |-> file,
     written    |-> 0,         \* writes of the info path
     raised     |-> NoError,
     ret        |-> -1,        \* value do_main returned (-1: none)
     returned   |-> FALSE,     \* main returned
     exit       |-> -1]        \* value main returned (-1: none)

Step(r, name) == [r EXCEPT !.steps = Append(@, name)]
Raise(r, class, kind) == [r EXCEPT !.raised = [class |-> class, kind |-> kind]]
Return(r, value) == [r EXCEPT !.ret = value]
\* (variant: the describe branch calls the operation of the wait branch)
CallOp_Pasted(r, op, arg, cmd) ==
    LET called == IF op = "launcher.describe" THEN "launcher.wait" ELSE op
    IN [Step(r, called) EXCEPT
           !.opCalls = Append(@, [op |-> called, arg |-> arg, cmd |-> cmd])]

\* launcher.<op>(...): the call is recorded with its arguments
CallOp(r, op, arg, cmd) ==
    [Step(r, op) EXCEPT !.opCalls = Append(@, [op |-> op, arg |-> arg, cmd |-> cmd])]

\* (variants: a required key is left out of the list)
ConfigRequired_NoMarker == <<"type", "provider_info">>
InfoRequired_TypeOnly == <<"type">>

\* the keys check_keys requires of the configuration and of the artifact
ConfigRequired == <<"type", "provider_info", MARKER>>
InfoRequired   == <<"type", "provider">>

\* (variants of the existence test: always false; negated)
InfoPathExists_Never(file) == FALSE
InfoPathExists_Negated(file) == ~file.exists

\* os.path.exists(info_path)
InfoPathExists(file) == file.exists

\* the arguments of get_launcher in create
ConfigLauncherArgs(config) ==
    [type |-> config.type, params |-> config.provider_info]

\* (variants: an unregistered type falls back to a default; the key of the
\* configuration document is read instead of the artifact's)
InfoLauncherArgs_Default(info) ==
    [type |-> IF info.type \in RegisteredTypes THEN info.type ELSE "fake",
     params |-> info.provider]
InfoLauncherArgs_ProviderInfo(info) ==
    [type |-> info.type, params |-> info.provider_info]

\* the arguments of get_launcher in the other phases
InfoLauncherArgs(info) ==
    [type |-> info.type, params |-> info.provider]

\* (variants: the file is written before launcher.create has returned; the
\* file is not written at all)
RunCreate_WriteFirst(r, config) ==
    LET r1 == [Step(r, "write_json") EXCEPT
                  !.fileAfter = FileOf(ArtifactFor(config)), !.written = @ + 1]
        r2 == CallOp(r1, "launcher.create", config, <<>>)
    IN IF r.ext.raises THEN Raise(r2, "LauncherError", OpErrorKind("create")) ELSE r2
RunCreate_NoWrite(r, config) ==
    LET r1 == CallOp(r, "launcher.create", config, <<>>)
    IN IF r.ext.raises THEN Raise(r1, "LauncherError", OpErrorKind("create")) ELSE r1

\* write_json(info_path, launcher.create(config)): the launcher call and,
\* when it returns, the write
RunCreate(r, config) ==
    LET r1 == CallOp(r, "launcher.create", config, <<>>)
    IN IF r.ext.raises THEN Raise(r1, "LauncherError", OpErrorKind("create"))
       ELSE [Step(r1, "write_json") EXCEPT
                !.fileAfter = FileOf(ArtifactFor(config)), !.written = @ + 1]

\* the create branch of do_main
do_create(r) ==
    LET r1 == Step(r, "os.path.exists")
    IN IF InfoPathExists(r.fileBefore)
       THEN Raise(r1, "LauncherError", "InputConflict")
       ELSE
       LET r2 == Step(r1, "load_yaml")
           y  == load_yaml(r.config)
       IN IF y.class # "none" THEN Raise(r2, y.class, y.kind)
          ELSE
          LET config == y.doc
              r3 == Step(r2, "check_keys")
          IN IF check_keys(config.has, ConfigRequired) # {}
             THEN Raise(r3, "LauncherError", "MissingKeys")
             ELSE
             LET la == ConfigLauncherArgs(config)
                 r4 == [Step(r3, "get_launcher") EXCEPT !.glCalls = Append(@, la)]
                 g  == get_launcher(la.type, la.params)
             IN IF g.class # "none" THEN Raise(r4, g.class, g.kind)
                ELSE
                LET r5 == RunCreate(r4, config)
                IN IF r5.raised.class # "none" THEN r5 ELSE Return(r5, 0)

\* (variant: the test for an assignment is missing)
HasAssignment_Never(envval) == FALSE

\* '=' in args['--env']
HasAssignment(envval) == Contains(envval, "=")

\* (variant: the environment is not checked for the listed names)
MissingEnv_Unchecked(environ, var_list) == {}

\* check_keys(os.environ, var_list): the listed names that are not set
MissingEnv(environ, var_list) == check_keys(DOMAIN environ, var_list)

\* (variant: the list is walked from its end)
Assignments_Reversed(var_list, environ) ==
    [i \in 1..Len(var_list) |->
        var_list[Len(var_list) + 1 - i] \o <<"=">>
            \o environ[var_list[Len(var_list) + 1 - i]]]

\* ['{}={}'.format(e, os.environ[e]) for e in var_list]
Assignments(var_list, environ) ==
    [i \in 1..Len(var_list) |-> var_list[i] \o <<"=">> \o environ[var_list[i]]]

\* ' '.join([...]) + ' ' + test_cmd
WithEnvPrefix(var_list, environ, test_cmd) ==
    Join(<<" ">>, Assignments(var_list, environ)) \o <<" ">> \o test_cmd

\* test_cmd += ' ' + ' '.join(args['<pytest_extras>'])
WithExtras(test_cmd, extras) ==
    IF Len(extras) > 0 THEN test_cmd \o <<" ">> \o Join(<<" ">>, extras) ELSE test_cmd

\* what do_main returns after launcher.test has returned status
PytestReturn(status) == 0

\* the pytest branch of do_main, the launcher being resolved
do_pytest(r, info) ==
    LET finish(rr, test_cmd) ==
            LET cmd == WithExtras(test_cmd, r.extras)
                r9  == CallOp(rr, "launcher.test", info, cmd)
            IN IF r.ext.raises THEN Raise(r9, "LauncherError", OpErrorKind("test"))
               ELSE Return(r9, PytestReturn(r.ext.status))
    IN IF ~r.env.given THEN finish(r, S_PYTEST)
       ELSE IF HasAssignment(r.env.val) THEN Raise(r, "LauncherError", "OptionError")
       ELSE
       LET var_list == Split(r.env.val, ",")
           names    == {var_list[i] : i \in 1..Len(var_list)}
           r1 == [Step(r, "check_keys") EXCEPT !.lookups = names]
       IN IF MissingEnv(r.environ, var_list) # {}
          THEN Raise(r1, "LauncherError", "MissingKeys")
          ELSE IF ~(names \subseteq DOMAIN r.environ)
          THEN Raise(r1, "KeyError", "none")
          ELSE finish([r1 EXCEPT !.cmdBuilt = TRUE],
                      WithEnvPrefix(var_list, r.environ, S_PYTEST))

\* the branch of do_main for wait, describe, pytest and delete
do_other(r) ==
    LET r1 == Step(r, "load_json")
        j  == load_json(r.fileBefore)
    IN IF j.class # "none" THEN Raise(r1, j.class, j.kind)
       ELSE
       LET info == j.doc
           r2   == Step(r1, "check_keys")
       IN IF check_keys(info.has, InfoRequired) # {}
          THEN Raise(r2, "LauncherError", "MissingKeys")
          ELSE
          LET la == InfoLauncherArgs(info)
              r3 == [Step(r2, "get_launcher") EXCEPT !.glCalls = Append(@, la)]
              g  == get_launcher(la.type, la.params)
          IN IF g.class # "none" THEN Raise(r3, g.class, g.kind)
             ELSE IF r.phase = "wait" THEN
                LET r4 == CallOp(r3, "launcher.wait", info, <<>>)
                IN IF r.ext.raises
                   THEN Raise(r4, "LauncherError", OpErrorKind("wait"))
                   ELSE Return([r4 EXCEPT !.printed = Append(@, "Cluster is ready!")], 0)
             ELSE IF r.phase = "describe" THEN
                LET r4 == CallOp(r3, "launcher.describe", info, <<>>)
                IN IF r.ext.raises
                   THEN Raise(r4, "LauncherError", OpErrorKind("describe"))
                   ELSE Return([r4 EXCEPT !.printed = Append(@, "description")], 0)
             ELSE IF r.phase = "pytest" THEN do_pytest(r3, info)
             ELSE
                LET r4 == CallOp(r3, "launcher.delete", info, <<>>)
                IN IF r.ext.raises
                   THEN Raise(r4, "LauncherError", OpErrorKind("delete"))
                   ELSE Return(r4, 0)

\* do_main(args)
do_main(args, file, cfg, environ, ext) ==
    LET r0 == Step(Begin(args, file, cfg, environ, ext), "_handle_logging")
        lg == _handle_logging(Upper(args.logLevel))
        r1 == [r0 EXCEPT !.configured = lg.configured, !.rootLevel = lg.root,
                         !.dampened = lg.dampened, !.noisyLevel = lg.noisy]
    IN IF ~lg.ok THEN Raise(r1, "LauncherError", "InvalidOption")
       ELSE IF args.phase = "create" THEN do_create(r1)
       ELSE do_other(r1)

\* except (LauncherError, YamlParseError)
Caught(class) == class \in {"LauncherError", "YamlParseError"}

\* main(argv): an exception that is not caught leaves main without a return
main(args, file, cfg, environ, ext) ==
    LET r == do_main(args, file, cfg, environ, ext)
    IN IF r.raised.class = "none"
       THEN [r EXCEPT !.returned = TRUE, !.exit = r.ret]
       ELSE IF Caught(r.raised.class)
       THEN [r EXCEPT !.returned = TRUE, !.exit = 1,
                      !.printed = @ \o <<"DC/OS Launch encountered an error!",
                                         r.raised.kind>>]
       ELSE r

-----------------------------------------------------------------------------
(* Inputs *)

L_Info  == <<"I", "n", "f", "o">>
L_bogus == <<"b", "o", "g", "u", "s">>
LogLevelInputs == {L_Info, L_bogus}

N_F == <<"F">>
N_B == <<"B">>
N_X == <<"X">>
NoEnviron == [n \in {} |-> <<>>]
EnvironInputs ==
    { (N_B :> <<"2">>) @@ (N_X :> <<"9">>),
      (N_F :> <<"1">>) @@ (N_B :> <<"2">>) }

NoEnv == [given |-> FALSE, val |-> <<>>]
EnvInputs ==
    { NoEnv,
      [given |-> TRUE, val |-> <<"B">>],
      [given |-> TRUE, val |-> <<"F", ",", "B">>],
      [given |-> TRUE, val |-> <<"B", "=", "1">>] }

ExtraArgs == { <<"-", "x">> }
ExtrasInputs == UNION { [1..n -> ExtraArgs] : n \in 0..MaxExtras }

ConfigInputs ==
    { NoFile, BadFile,
      FileOf(Doc(ConfigKeys, "fake", NoVal, "pi_ok")),
      FileOf(Doc(ConfigKeys, "fake", NoVal, "pi_bad")),
      FileOf(Doc(ConfigKeys, "unknown", NoVal, "pi_ok")),
      FileOf(Doc({"type", "provider_info"}, "fake", NoVal, "pi_ok")),
      FileOf(Doc({MARKER}, NoVal, NoVal, NoVal)) }

\* the configuration file that happens to lie around in the other phases
OtherConfigInputs ==
    { NoFile, FileOf(Doc(ConfigKeys, "fake", NoVal, "pi_alt")) }

\* what the info path may hold before the first invocation
InitialInfoFiles ==
    { NoFile, BadFile,
      FileOf(EmptyDoc),
      FileOf(Doc({"type"}, "fake", NoVal, NoVal)),
      FileOf(Doc(ArtifactKeys, "fake", "p_ok", NoVal)),
      FileOf(Doc(ArtifactKeys, "fake", "p_bad", NoVal)),
      FileOf(Doc(ArtifactKeys, "unknown", "p_ok", NoVal)) }

\* what the launcher operation does: it raises, or it returns; launcher.test
\* returns the exit status of the test runner
OutcomeInputs == {[raises |-> b, status |-> 0] : b \in BOOLEAN}
TestOutcomeInputs ==
    {[raises |-> TRUE, status |-> 0]} \cup
    {[raises |-> FALSE, status |-> st] : st \in 0..MaxStatus}

-----------------------------------------------------------------------------
(* The state machine: one action per phase, each one whole run of main *)

Init ==
    /\ infoFile \in InitialInfoFiles
    /\ pristine = ~infoFile.exists
    /\ last = Begin([phase |-> "none", logLevel |-> <<>>, env |-> NoEnv,
                     extras |-> <<>>],
                    infoFile, NoFile, NoEnviron, [raises |-> FALSE, status |-> 0])
    /\ writes = 0
    /\ created = FALSE

\* what an invocation leaves behind: the info path as write_json left it,
\* and the history of the path
Settle ==
    /\ infoFile' = last'.fileAfter
    /\ writes' = IF writes + last'.written > MaxWrites THEN MaxWrites
                 ELSE writes + last'.written
    /\ created' = (created \/ (last'.phase = "create" /\ last'.returned
                                                     /\ last'.exit = 0))
    /\ UNCHANGED pristine

Create ==
    \E lvl \in LogLevelInputs, cfg \in ConfigInputs, ext \in OutcomeInputs :
        /\ last' = main([phase |-> "create", logLevel |-> lvl, env |-> NoEnv, extras |-> <<>>],
                        infoFile, cfg, NoEnviron, ext)
        /\ Settle

Wait ==
    \E lvl \in LogLevelInputs, cfg \in OtherConfigInputs, environ \in EnvironInputs,
       ext \in OutcomeInputs :
        /\ last' = main([phase |-> "wait", logLevel |-> lvl, env |-> NoEnv, extras |-> <<>>],
                        infoFile, cfg, environ, ext)
        /\ Settle

Describe ==
    \E lvl \in LogLevelInputs, cfg \in OtherConfigInputs, environ \in EnvironInputs,
       ext \in OutcomeInputs :
        /\ last' = main([phase |-> "describe", logLevel |-> lvl, env |-> NoEnv, extras |-> <<>>],
                        infoFile, cfg, environ, ext)
        /\ Settle

Pytest ==
    \E lvl \in LogLevelInputs, cfg \in OtherConfigInputs, environ \in EnvironInputs,
       env \in EnvInputs, extras \in ExtrasInputs, ext \in TestOutcomeInputs :
        /\ last' = main([phase |-> "pytest", logLevel |-> lvl, env |-> env, extras |-> extras],
                        infoFile, cfg, environ, ext)
        /\ Settle

Delete ==
    \E lvl \in LogLevelInputs, cfg \in OtherConfigInputs, environ \in EnvironInputs,
       ext \in OutcomeInputs :
        /\ last' = main([phase |-> "delete", logLevel |-> lvl, env |-> NoEnv, extras |-> <<>>],
                        infoFile, cfg, environ, ext)
        /\ Settle

Next == Create \/ Wait \/ Describe \/ Pytest \/ Delete

Spec == Init /\ [][Next]_vars

-----------------------------------------------------------------------------
(* Vocabulary of the properties *)

OtherPhases == {"wait", "describe", "pytest", "delete"}

\* the --log-level of the invocation is one of the six accepted levels
AcceptedLevel(lvl) ==
    Upper(lvl) \in {S_CRITICAL, S_ERROR, S_WARNING, S_INFO, S_DEBUG, S_TRACE}

\* the invocation ended in main's handler for the given kind of error:
\* the error was reported and main returned 1
FailedWith(r, kind) ==
    /\ r.raised = [class |-> "LauncherError", kind |-> kind]
    /\ r.returned /\ r.exit = 1
    /\ r.printed # <<>>

\* the file holds a document with the keys type and provider
HasArtifactKeys(file) ==
    file.exists /\ file.parses /\ ArtifactKeys \subseteq file.doc.has

\* ... and a launcher can be built from it
ValidArtifact(file) ==
    /\ HasArtifactKeys(file)
    /\ file.doc.type \in RegisteredTypes
    /\ file.doc.provider \in GoodParams

OpsCalled(r) == {r.opCalls[i].op : i \in 1..Len(r.opCalls)}
StepsTaken(r) == {r.steps[i] : i \in 1..Len(r.steps)}

\* --env is given and holds an '='
EnvAssigns(r) == r.env.given /\ Contains(r.env.val, "=")

\* the names of --env read as a comma separated list
EnvNames(r) == LET l == Split(r.env.val, ",") IN {l[i] : i \in 1..Len(l)}

-----------------------------------------------------------------------------
(* C1 *)

\* what C1 says of a create that finds the info path taken, the kind of
\* the error left open
C1_Refused(r) ==
    /\ r.returned /\ r.exit = 1
    /\ "load_yaml" \notin StepsTaken(r)
    /\ r.glCalls = <<>>
    /\ r.opCalls = <<>>
    /\ r.written = 0
    /\ infoFile = r.fileBefore

\* C1 as stated: every create that finds the info path existing fails with
\* InputConflict and exit code 1, without loading the configuration,
\* resolving a launcher, calling launcher.create or changing the info path.
C1_AsStated ==
    (last.phase = "create" /\ last.fileBefore.exists)
        => (FailedWith(last, "InputConflict") /\ C1_Refused(last))

\* C1, amended: every create that finds the info path existing fails with
\* exit code 1 without loading the configuration, resolving a launcher,
\* calling launcher.create or changing the info path; the error is
\* InputConflict when --log-level is an accepted level and InvalidOption
\* when it is not.
C1_CreateRefusedOnExistingInfoPath ==
    (last.phase = "create" /\ last.fileBefore.exists)
        => /\ C1_Refused(last)
           /\ FailedWith(last, IF AcceptedLevel(last.logLevel)
                               THEN "InputConflict" ELSE "InvalidOption")

C1_Witness ==
    /\ last.phase = "create" /\ last.fileBefore.exists
    /\ last.fileBefore.parses
    /\ FailedWith(last, "InputConflict")

-----------------------------------------------------------------------------
(* C2 *)

\* C2 as stated: a pytest invocation in which launcher.test returned ends
\* with main returning the status launcher.test returned; one that failed
\* before with a reported error ends with 1.
C2_AsStated ==
    last.phase = "pytest" =>
        /\ ("launcher.test" \in OpsCalled(last) /\ last.raised.class = "none")
              => (last.returned /\ last.exit = last.ext.status)
        /\ (Caught(last.raised.class) /\ "launcher.test" \notin OpsCalled(last))
              => (last.returned /\ last.exit = 1)

-----------------------------------------------------------------------------
(* C3 *)

\* C3 as stated: every pytest invocation whose --env holds an '=' fails
\* with OptionError and exit code 1, whatever the artifact and the
\* environment hold, without looking up an environment variable and
\* without calling launcher.test.
C3_AsStated ==
    (last.phase = "pytest" /\ EnvAssigns(last))
        => /\ FailedWith(last, "OptionError")
           /\ last.lookups = {}
           /\ "launcher.test" \notin OpsCalled(last)

\* C3, amended: no pytest invocation whose --env holds an '=' looks up an
\* environment variable or calls launcher.test, whatever the artifact and
\* the environment hold; it fails with OptionError and exit code 1 when
\* --log-level is accepted and the artifact is one a launcher is resolved
\* from, and otherwise with the error of the earlier step that failed.
C3_EnvAssignmentRejected ==
    (last.phase = "pytest" /\ EnvAssigns(last))
        => /\ last.lookups = {}
           /\ ~last.cmdBuilt
           /\ "launcher.test" \notin OpsCalled(last)
           /\ last.raised.class # "none"
           /\ (AcceptedLevel(last.logLevel) /\ ValidArtifact(last.fileBefore))
                 <=> FailedWith(last, "OptionError")

C3_Witness ==
    /\ last.phase = "pytest" /\ EnvAssigns(last)
    /\ last.environ # NoEnviron
    /\ FailedWith(last, "OptionError")

-----------------------------------------------------------------------------
(* C4 *)

\* a pytest invocation with a valid artifact and an --env list without '='
\* that names a variable the environment does not set
C4_Case(r) ==
    /\ r.phase = "pytest"
    /\ ValidArtifact(r.fileBefore)
    /\ r.env.given /\ ~Contains(r.env.val, "=")
    /\ ~(EnvNames(r) \subseteq DOMAIN r.environ)

C4_Outcome(r) ==
    /\ FailedWith(r, "MissingKeys")
    /\ ~r.cmdBuilt
    /\ "launcher.test" \notin OpsCalled(r)

\* C4 as stated: every such invocation fails with MissingKeys and exit code
\* 1 before the environment prefix is built, and never calls launcher.test.
C4_AsStated == C4_Case(last) => C4_Outcome(last)

\* C4, amended: every such invocation whose --log-level is an accepted
\* level fails with MissingKeys and exit code 1 before the environment
\* prefix is built; with or without an accepted level the prefix is not
\* built and launcher.test is not called.
C4_UnsetEnvNameFails ==
    C4_Case(last)
        => /\ ~last.cmdBuilt
           /\ "launcher.test" \notin OpsCalled(last)
           /\ AcceptedLevel(last.logLevel) => C4_Outcome(last)

C4_Witness ==
    /\ C4_Case(last)
    /\ EnvNames(last) \cap DOMAIN last.environ # {}
    /\ C4_Outcome(last)

-----------------------------------------------------------------------------
(* C5 *)

\* an invocation of another phase than create on an artifact that has type
\* and provider but whose type is not registered
C5_Case(r) ==
    /\ r.phase \in OtherPhases
    /\ HasArtifactKeys(r.fileBefore)
    /\ r.fileBefore.doc.type \notin RegisteredTypes

\* C5 as stated: each of wait, describe, pytest and delete on such an
\* artifact fails with UnsupportedProvider and exit code 1 and invokes no
\* launcher operation.
C5_AsStated ==
    C5_Case(last) => (FailedWith(last, "UnsupportedProvider") /\ last.opCalls = <<>>)

\* C5, amended: each of wait, describe, pytest and delete on such an
\* artifact fails with exit code 1 and invokes no launcher operation; the
\* error is UnsupportedProvider when --log-level is an accepted level (and
\* InvalidOption when it is not).
C5_UnknownTypeUnsupported ==
    C5_Case(last)
        => /\ last.opCalls = <<>>
           /\ FailedWith(last, IF AcceptedLevel(last.logLevel)
                               THEN "UnsupportedProvider" ELSE "InvalidOption")

C5_Witness ==
    /\ C5_Case(last)
    /\ last.phase = "delete"
    /\ FailedWith(last, "UnsupportedProvider")

-----------------------------------------------------------------------------
(* C6 *)

\* C6 as stated: once a create on the info path has succeeded, every later
\* create on it fails with InputConflict, whatever was invoked in between,
\* and a delete leaves the artifact file in place.
C6_AsStated ==
    [][ /\ (created /\ last'.phase = "create") => FailedWith(last', "InputConflict")
        /\ last'.phase = "delete" => infoFile' = infoFile ]_vars

\* C6, amended: once a create on the info path has succeeded, the file stays
\* in place, no later create on it succeeds or changes it, whatever was
\* invoked in between, and a delete leaves the artifact file as it is; a
\* later create fails with exit code 1, with InputConflict when its
\* --log-level is an accepted level and InvalidOption when it is not.
C6_NoSecondCreate ==
    [][ /\ (created /\ last'.phase = "create")
            => /\ FailedWith(last', IF AcceptedLevel(last'.logLevel)
                                    THEN "InputConflict" ELSE "InvalidOption")
               /\ last'.opCalls = <<>>
               /\ infoFile' = infoFile
        /\ created => infoFile'.exists
        /\ last'.phase = "delete" => infoFile' = infoFile ]_vars

\* a create is refused after an earlier create succeeded on a path that was
\* free at the start
C6_Witness ==
    /\ pristine /\ created
    /\ last.phase = "create"
    /\ FailedWith(last, "InputConflict")

-----------------------------------------------------------------------------
(* C7 *)

\* what C7 says of a single invocation
C7_PerInvocation(r) ==
    /\ r.written <= 1
    /\ r.written = 1
          => /\ r.phase = "create"
             /\ r.raised.class = "none"
             /\ Len(r.steps) >= 2
             /\ r.steps[Len(r.steps)] = "write_json"
             /\ r.steps[Len(r.steps) - 1] = "launcher.create"
    /\ r.written = 0 => infoFile = r.fileBefore
    /\ r.phase \in OtherPhases => (r.written = 0 /\ infoFile = r.fileBefore)

\* C7 as stated: the file is written only by create, at most once per
\* invocation and only after launcher.create has returned; the other phases
\* leave it unchanged; and over any sequence of invocations the file is
\* written exactly once.
C7_AsStated ==
    last.phase # "none" => (C7_PerInvocation(last) /\ writes = 1)

\* C7, amended: ... and over any sequence of invocations the file is written
\* at most once: not at all until a create succeeds, and exactly once from
\* then on.
C7_WrittenOnlyByCreate ==
    /\ C7_PerInvocation(last)
    /\ writes = IF created THEN 1 ELSE 0

\* a phase other than create runs to its end after the one write
C7_Witness ==
    /\ writes = 1
    /\ last.phase = "delete"
    /\ last.returned /\ last.exit = 0

-----------------------------------------------------------------------------
(* C8 *)

\* C8 as stated: every invocation in which a step fails ends with main
\* having printed an error message and returned 1; no failure escapes main.
C8_AsStated ==
    (last.phase # "none" /\ last.raised.class # "none")
        => (last.returned /\ last.exit = 1 /\ last.printed # <<>>)

-----------------------------------------------------------------------------
(* C9 *)

\* C9: on an info path that did not exist at the start, a launcher
\* operation of wait, describe, pytest or delete is invoked only after a
\* create on that path has returned 0.
C9_OperationsOnlyAfterCreate ==
    (pristine /\ last.phase \in OtherPhases /\ last.opCalls # <<>>) => created

\* wait reaches the launcher after a create, on a path free at the start
C9_Witness ==
    /\ pristine /\ created
    /\ last.phase = "wait"
    /\ "launcher.wait" \in OpsCalled(last)

-----------------------------------------------------------------------------
(* C10 *)

OpOf(phase) ==
    IF phase = "wait" THEN "launcher.wait"
    ELSE IF phase = "describe" THEN "launcher.describe"
    ELSE IF phase = "pytest" THEN "launcher.test"
    ELSE "launcher.delete"

Restrict(f, S) == [x \in (S \cap DOMAIN f) |-> f[x]]

\* the get_launcher call and the operation call as the artifact alone fixes
\* them
C10_ResolvedFrom(doc) ==
    IF ArtifactKeys \subseteq doc.has
    THEN <<[type |-> doc.type, params |-> doc.provider]>>
    ELSE <<>>

C10_InvokedFrom(phase, doc) ==
    IF ValidArtifact(FileOf(doc))
    THEN <<[op |-> OpOf(phase), arg |-> doc, cmd |-> <<>>]>>
    ELSE <<>>

\* the test command as --env, the variables it names and the trailing
\* arguments fix it: the environment is cut down to the named variables
C10_CommandFrom(r) ==
    WithExtras(IF r.env.given
               THEN WithEnvPrefix(Split(r.env.val, ","),
                                  Restrict(r.environ, EnvNames(r)), S_PYTEST)
               ELSE S_PYTEST,
               r.extras)

\* C10: in wait, describe, pytest and delete the configuration file is never
\* read; an invocation that reads the artifact calls get_launcher with the
\* artifact's (type, provider); wait, describe and delete then call their
\* operation, or not, as the artifact alone decides, with the artifact as
\* argument; pytest, when it calls launcher.test, passes the artifact and a
\* command fixed by --env, the variables it names and the trailing arguments.
C10_ArtifactAloneDecides ==
    last.phase \in OtherPhases
        => /\ "load_yaml" \notin StepsTaken(last)
           /\ (last.fileBefore.exists /\ last.fileBefore.parses
                  /\ "load_json" \in StepsTaken(last))
                 => /\ last.glCalls = C10_ResolvedFrom(last.fileBefore.doc)
                    /\ last.phase # "pytest"
                          => last.opCalls =
                                C10_InvokedFrom(last.phase, last.fileBefore.doc)
                    /\ (last.phase = "pytest" /\ last.opCalls # <<>>)
                          => last.opCalls =
                                <<[op |-> "launcher.test",
                                   arg |-> last.fileBefore.doc,
                                   cmd |-> C10_CommandFrom(last)]>>

\* describe reaches the launcher with another configuration lying around
\* and after earlier invocations; pytest passes on one of two set variables
C10_Witness ==
    \/ /\ last.phase = "describe"
       /\ created
       /\ last.config.exists
       /\ "launcher.describe" \in OpsCalled(last)
    \/ /\ last.phase = "pytest"
       /\ last.env.given
       /\ EnvNames(last) # DOMAIN last.environ
       /\ "launcher.test" \in OpsCalled(last)

-----------------------------------------------------------------------------
(* C11 *)

\* the launcher operation that belongs to a phase
C11_OperationOf(phase) ==
    IF phase = "create" THEN "launcher.create" ELSE OpOf(phase)

\* C11: every invocation invokes at most one launcher operation, and none
\* of another phase; an invocation that returns 0 has invoked exactly one,
\* the one of its phase.
C11_OneMatchingOperation ==
    last.phase # "none"
        => /\ Len(last.opCalls) <= 1
           /\ OpsCalled(last) \subseteq {C11_OperationOf(last.phase)}
           /\ (last.returned /\ last.exit = 0)
                 => /\ Len(last.opCalls) = 1
                    /\ last.opCalls[1].op = C11_OperationOf(last.phase)

\* a describe returns 0 having called launcher.describe and nothing else
C11_Witness ==
    /\ last.phase = "describe"
    /\ last.returned /\ last.exit = 0
    /\ last.opCalls # <<>>
    /\ last.opCalls[1].op = "launcher.describe"

-----------------------------------------------------------------------------
(* C12 *)

\* a create whose configuration is a document that lacks a required key;
\* another phase whose artifact is a document that lacks type or provider
C12_Case(r) ==
    \/ /\ r.phase = "create"
       /\ r.config.exists /\ r.config.parses
       /\ ~(ConfigKeys \subseteq r.config.doc.has)
    \/ /\ r.phase \in OtherPhases
       /\ r.fileBefore.exists /\ r.fileBefore.parses
       /\ ~(ArtifactKeys \subseteq r.fileBefore.doc.has)

\* no launcher is resolved, no operation invoked, nothing written
C12_NothingDone(r) ==
    /\ "get_launcher" \notin StepsTaken(r)
    /\ r.glCalls = <<>>
    /\ r.opCalls = <<>>
    /\ r.written = 0
    /\ infoFile = r.fileBefore

\* C12 as stated: in such an invocation get_launcher is never called, and
\* the invocation ends with MissingKeys and exit code 1, no launcher
\* operation and no write.
C12_AsStated ==
    C12_Case(last) => (C12_NothingDone(last) /\ FailedWith(last, "MissingKeys"))

\* C12, amended: in such an invocation get_launcher is never called, no
\* launcher operation is invoked, nothing is written and main returns 1; the
\* error is MissingKeys when --log-level is an accepted level and, for
\* create, the info path does not exist yet; otherwise it is the error of
\* the earlier check: InvalidOption for the log level, InputConflict for a
\* create on an existing info path.
C12_ValidationBeforeResolution ==
    C12_Case(last)
        => /\ C12_NothingDone(last)
           /\ FailedWith(last,
                 IF ~AcceptedLevel(last.logLevel) THEN "InvalidOption"
                 ELSE IF last.phase = "create" /\ last.fileBefore.exists
                      THEN "InputConflict"
                 ELSE "MissingKeys")

\* a create stops at the configuration that lacks the marker key
C12_Witness ==
    /\ last.phase = "create"
    /\ C12_Case(last)
    /\ {"type", "provider_info"} \subseteq last.config.doc.has
    /\ FailedWith(last, "MissingKeys")
    /\ last.steps[Len(last.steps)] = "check_keys"

-----------------------------------------------------------------------------
(* The test command: pytest runs on a valid artifact, with more lists,     *)
(* values and trailing arguments than in Spec                              *)

N_Q == <<"Q">>

\* values with a space in them and an empty value included; Q is never set
CmdEnvironInputs ==
    { (N_F :> <<"1">>) @@ (N_B :> <<"2">>) @@ (N_X :> <<"9">>),
      (N_F :> <<"a", " ", "b">>) @@ (N_B :> <<>>) }

CmdEnvInputs ==
    { NoEnv,
      [given |-> TRUE, val |-> <<"B">>],
      [given |-> TRUE, val |-> <<"F", ",", "B">>],
      [given |-> TRUE, val |-> <<"B", ",", "F">>],
      [given |-> TRUE, val |-> <<"F", ",", "Q">>] }

CmdExtraArgs == { <<"-", "x">>, <<"k">> }
CmdExtrasInputs == UNION { [1..n -> CmdExtraArgs] : n \in 0..MaxCmdExtras }

InitCmd ==
    /\ infoFile = FileOf(Doc(ArtifactKeys, "fake", "p_ok", NoVal))
    /\ pristine = FALSE
    /\ last = Begin([phase |-> "none", logLevel |-> <<>>, env |-> NoEnv,
                     extras |-> <<>>],
                    infoFile, NoFile, NoEnviron, [raises |-> FALSE, status |-> 0])
    /\ writes = 0
    /\ created = FALSE

PytestCmd ==
    \E environ \in CmdEnvironInputs, env \in CmdEnvInputs,
       extras \in CmdExtrasInputs, ext \in TestOutcomeInputs :
        /\ last' = main([phase |-> "pytest", logLevel |-> L_Info, env |-> env,
                         extras |-> extras],
                        infoFile, NoFile, environ, ext)
        /\ Settle

NextCmd == PytestCmd

SpecCmd == InitCmd /\ [][NextCmd]_vars

-----------------------------------------------------------------------------
(* C13 *)

\* the assignments name=value of the listed names, in the order of the
\* list, each followed by one space
RECURSIVE C13_Prefix(_, _)
C13_Prefix(names, environ) ==
    IF names = <<>> THEN <<>>
    ELSE names[1] \o <<"=">> \o environ[names[1]] \o <<" ">>
            \o C13_Prefix(Tail(names), environ)

\* the trailing arguments, in their order, each preceded by one space
RECURSIVE C13_Suffix(_)
C13_Suffix(extras) ==
    IF extras = <<>> THEN <<>>
    ELSE <<" ">> \o extras[1] \o C13_Suffix(Tail(extras))

C13_Command(r) ==
    (IF r.env.given THEN C13_Prefix(Split(r.env.val, ","), r.environ) ELSE <<>>)
        \o <<"p", "y", ".", "t", "e", "s", "t">>
        \o C13_Suffix(r.extras)

\* C13: the command passed to launcher.test is the assignments of the
\* names listed in --env in the order of the list, separated by single
\* spaces, a space and py.test (py.test alone without --env), then a space
\* and the trailing arguments as given, separated by single spaces.  (With
\* an accepted log level and a valid artifact, launcher.test is called
\* exactly when --env is absent or is a list without '=' of set names.)
C13_TestCommand ==
    last.phase = "pytest"
        => /\ (AcceptedLevel(last.logLevel) /\ ValidArtifact(last.fileBefore))
                 => ((~last.env.given
                        \/ (~EnvAssigns(last)
                              /\ EnvNames(last) \subseteq DOMAIN last.environ))
                      <=> "launcher.test" \in OpsCalled(last))
           /\ "launcher.test" \in OpsCalled(last)
                 => last.opCalls[1].cmd = C13_Command(last)

\* B,F with two trailing arguments gives "B=2 F=1 py.test -x k"
C13_Witness ==
    /\ last.phase = "pytest"
    /\ last.env = [given |-> TRUE, val |-> <<"B", ",", "F">>]
    /\ last.extras = << <<"-", "x">>, <<"k">> >>
    /\ last.opCalls # <<>>
    /\ last.opCalls[1].cmd =
          <<"B", "=", "2", " ", "F", "=", "1", " ",
            "p", "y", ".", "t", "e", "s", "t", " ", "-", "x", " ", "k">>

-----------------------------------------------------------------------------
(* Logging: runs with every spelling of the levels *)

\* the lower-case letter of an upper-case one
LowerOf(c) == CHOOSE k \in DOMAIN ToUpper : ToUpper[k] = c

\* every way of writing the upper-case word in mixed case
RECURSIVE CaseVariants(_)
CaseVariants(word) ==
    IF word = <<>> THEN {<<>>}
    ELSE {<<c>> \o rest : c \in {word[1], LowerOf(word[1])},
                          rest \in CaseVariants(Tail(word))}

\* the word in lower case, in upper case and capitalised
PlainVariants(word) ==
    {word,
     [i \in 1..Len(word) |-> LowerOf(word[i])],
     [i \in 1..Len(word) |-> IF i = 1 THEN word[i] ELSE LowerOf(word[i])]}

AllLogLevelInputs ==
    CaseVariants(S_INFO) \cup CaseVariants(S_ERROR) \cup CaseVariants(S_DEBUG)
        \cup CaseVariants(S_TRACE)
        \cup PlainVariants(S_WARNING) \cup PlainVariants(S_CRITICAL)
        \cup {<<>>, L_bogus, <<"w", "a", "r", "n">>, <<"I", "N", "F", "O", "S">>}

InitLog == InitCmd

LogRun ==
    \E lvl \in AllLogLevelInputs, phase \in {"create", "wait"},
       ext \in OutcomeInputs :
        /\ last' = main([phase |-> phase, logLevel |-> lvl, env |-> NoEnv,
                         extras |-> <<>>],
                        infoFile, NoFile, NoEnviron, ext)
        /\ Settle

NextLog == LogRun

SpecLog == InitLog /\ [][NextLog]_vars

-----------------------------------------------------------------------------
(* C14 *)

\* lvl is the upper-case word, letter by letter in either case
C14_Spells(lvl, word) ==
    /\ Len(lvl) = Len(word)
    /\ \A i \in 1..Len(word) : lvl[i] \in {word[i], LowerOf(word[i])}

\* the threshold of the logging module for each level (trace is debug)
C14_Threshold(word) ==
    IF word = S_CRITICAL THEN 50
    ELSE IF word = S_ERROR THEN 40
    ELSE IF word = S_WARNING THEN 30
    ELSE IF word = S_INFO THEN 20
    ELSE 10

\* C14: for the six levels in any mix of case, logging is configured with
\* the level's threshold; with trace and critical the botocore and boto3
\* loggers are left alone; with error, warning, info and debug their level
\* is set to the configured threshold plus 10.
C14_NoisyLoggersDampened ==
    last.phase # "none"
        => /\ \A w \in {S_TRACE, S_CRITICAL} :
                 C14_Spells(last.logLevel, w)
                    => /\ last.configured
                       /\ last.rootLevel = C14_Threshold(w)
                       /\ ~last.dampened
           /\ \A w \in {S_ERROR, S_WARNING, S_INFO, S_DEBUG} :
                 C14_Spells(last.logLevel, w)
                    => /\ last.configured
                       /\ last.rootLevel = C14_Threshold(w)
                       /\ last.dampened
                       /\ last.noisyLevel = last.rootLevel + 10

\* "dEbUg" configures 10 and sets the loud loggers to 20
C14_Witness ==
    /\ last.logLevel = <<"d", "E", "b", "U", "g">>
    /\ last.configured /\ last.rootLevel = 10
    /\ last.dampened /\ last.noisyLevel = 20

-----------------------------------------------------------------------------
(* C15 *)

\* a create on a free info path in which some step failed
C15_Case(r) ==
    /\ r.phase = "create"
    /\ ~r.fileBefore.exists
    /\ r.raised.class # "none"

\* nothing was written and the info path is still free, so that a later
\* create is not refused for the path
C15_NothingLeft ==
    C15_Case(last)
        => /\ last.written = 0
           /\ ~last.fileAfter.exists
           /\ ~infoFile.exists
           /\ ~InfoPathExists(infoFile)

\* C15 as stated: when a create fails at any step, no artifact is written,
\* the info path still does not exist, main returns 1, and a later create on
\* the path is not refused with InputConflict.
C15_AsStated ==
    /\ C15_NothingLeft
    /\ C15_Case(last) => (last.returned /\ last.exit = 1)

-----------------------------------------------------------------------------
(* C16 *)

\* what the invocation would have met had the level been accepted
C16_OtherFailureAhead(r) ==
    \/ r.phase = "create" /\ r.fileBefore.exists
    \/ r.phase = "create" /\ r.config.exists /\ r.config.parses
           /\ ~(ConfigKeys \subseteq r.config.doc.has)
    \/ r.phase \in OtherPhases /\ ~HasArtifactKeys(r.fileBefore)
    \/ r.phase \in OtherPhases /\ HasArtifactKeys(r.fileBefore)
           /\ r.fileBefore.doc.type \notin RegisteredTypes
    \/ r.phase = "pytest" /\ EnvAssigns(r)

\* C16: an invocation with a log level that is not one of the six ends with
\* InvalidOption and main returning 1, and _handle_logging is the only step
\* taken: the info path is not looked at or written, no file is loaded, no
\* launcher is resolved, no operation is invoked and the environment is not
\* read, whatever else is wrong with the invocation.
C16_InvalidLevelFailsFirst ==
    (last.phase # "none" /\ ~AcceptedLevel(last.logLevel))
        => /\ FailedWith(last, "InvalidOption")
           /\ last.steps = <<"_handle_logging">>
           /\ last.glCalls = <<>>
           /\ last.opCalls = <<>>
           /\ last.lookups = {}
           /\ ~last.cmdBuilt
           /\ last.written = 0
           /\ last.fileAfter = last.fileBefore
           /\ infoFile = last.fileBefore

\* a create with a level that is not known, on an info path that exists and
\* with a configuration that lacks keys, ends with InvalidOption
C16_Witness ==
    /\ last.phase = "create"
    /\ ~AcceptedLevel(last.logLevel)
    /\ last.fileBefore.exists
    /\ C16_OtherFailureAhead(last)
    /\ last.config.exists /\ last.config.parses
    /\ ~(ConfigKeys \subseteq last.config.doc.has)
    /\ FailedWith(last, "InvalidOption")

\* a pytest with a level that is not known and an assignment in --env
C16_WitnessPytest ==
    /\ last.phase = "pytest"
    /\ ~AcceptedLevel(last.logLevel)
    /\ EnvAssigns(last)
    /\ FailedWith(last, "InvalidOption")

====
